---------------------------- MODULE Spec2Model ----------------------------
(***************************************************************************)
(* Vecture Redact: the redaction / restoration engine of                   *)
(* src/vecture/core.py (VectureRedactor) and the redact command of          *)
(* src/vecture/main.py.                                                     *)
(*                                                                         *)
(* A text is a sequence of one-character strings.  Offsets are Python's     *)
(* 0-based code-point offsets; Slice(s, a, b) is Python's s[a:b].           *)
(***************************************************************************)
EXTENDS Integers, Sequences, FiniteSets, TLC

VARIABLES
    text,            \* redact(): the raw input text
    style,           \* redact(): the style argument
    custom_words,    \* redact(): the custom word list
    redact_caps,     \* redact(): the capitalisation heuristic flag
    result_text,     \* redact(): the list of pieces appended to result_text
    redacted_text,   \* the redacted text the caller holds
    key_data,        \* the caller's key object: [hash, restorations]
    outcome,         \* what the last restore() call returned or raised
    phase,           \* where the caller is
    matches,         \* _find_matches(): the candidate list, in discovery order
    cleaned_matches, \* _find_matches(): the resolved list it returns
    cli              \* main.redact: the command's position, its options and the disk

vars == <<text, style, custom_words, redact_caps, result_text, redacted_text,
          key_data, outcome, phase, matches, cleaned_matches, cli>>

(***************************************************************************)
(* Bounds of the model.                                                    *)
(***************************************************************************)
MaxTokens == 2      \* an input text is at most this many fragments
NoiseSeeds == 2     \* states of the random source tried for VECTURE_NOISE
MaxRLen == 2        \* restore() inputs: length of a hand-made redacted text
MaxRecs == 2        \* restore() inputs: records of a hand-made key
MaxPos == 3         \* restore() inputs: largest position of a hand-made record
SpanMax == 5        \* resolver inputs: largest end of a candidate span
MaxCands == 3       \* resolver inputs: number of candidates

(***************************************************************************)
(* Characters.                                                             *)
(***************************************************************************)
Upper == {"A","B","C","D","E","F","G","H","I","J","K","L","M",
          "N","O","P","Q","R","S","T","U","V","W","X","Y","Z"}
Lower == {"a","b","c","d","e","f","g","h","i","j","k","l","m",
          "n","o","p","q","r","s","t","u","v","w","x","y","z"}
Digit == {"0","1","2","3","4","5","6","7","8","9"}

\* The printable ASCII characters, code 32 first (code 96 by its name: a
\* string cannot hold it).
Printable ==
    <<" ","!","\"","#","$","%","&","'","(",")","*","+",",","-",".","/",
      "0","1","2","3","4","5","6","7","8","9",":",";","<","=",">","?",
      "@","A","B","C","D","E","F","G","H","I","J","K","L","M","N","O",
      "P","Q","R","S","T","U","V","W","X","Y","Z","[","\\","]","^","_",
      "GRAVE","a","b","c","d","e","f","g","h","i","j","k","l","m","n","o",
      "p","q","r","s","t","u","v","w","x","y","z","{","|","}","~">>

BlockChar == "█"

\* ord(c), tabulated
OrdTable ==
    [c \in {Printable[i] : i \in 1..Len(Printable)} |->
        31 + (CHOOSE i \in 1..Len(Printable) : Printable[i] = c)]

Ord(c) == OrdTable[c]

\* str.encode('utf-8') of one character.
Utf8(c) == IF c = BlockChar THEN <<226, 150, 136>> ELSE <<Ord(c)>>

\* re.IGNORECASE: two characters match when they are the same letter.
FoldCase(c) ==
    IF c \in Upper THEN Printable[(Ord(c) - 31) + 32] ELSE c

\* \w of the re module, on the characters above.
IsWord(c) == c \in Upper \cup Lower \cup Digit \cup {"_"}

(***************************************************************************)
(* Python sequence operations.                                             *)
(***************************************************************************)
Min(a, b) == IF a < b THEN a ELSE b
Max(a, b) == IF a > b THEN a ELSE b

\* A slice index as Python normalises it: negative counts from the end,
\* and the result is clamped to 0..n.
SliceIndex(i, n) == IF i < 0 THEN Max(i + n, 0) ELSE Min(i, n)

\* s[a:b]
Slice(s, a, b) ==
    LET lo == SliceIndex(a, Len(s))
        hi == SliceIndex(b, Len(s))
    IN  IF lo >= hi THEN <<>> ELSE SubSeq(s, lo + 1, hi)

\* s[a:] and s[:b]
SliceFrom(s, a) == Slice(s, a, Len(s))
SliceTo(s, b) == Slice(s, 0, b)

RECURSIVE Join(_)
\* "".join(pieces)
Join(pieces) ==
    IF pieces = <<>> THEN <<>> ELSE Head(pieces) \o Join(Tail(pieces))

RECURSIVE SumLen(_)
\* sum(len(s) for s in pieces)
SumLen(pieces) ==
    IF pieces = <<>> THEN 0 ELSE Len(Head(pieces)) + SumLen(Tail(pieces))

\* c * n
Repeat(c, n) == [k \in 1..n |-> c]

(***************************************************************************)
(* The recognizers of _find_matches.  Each XEnd(t, i) is the end offset of  *)
(* the match the pattern finds when it is tried at offset i, or -1.         *)
(***************************************************************************)
\* \b at offset i of t
Boundary(t, i) ==
    LET before == i > 0 /\ IsWord(t[i])
        after == i < Len(t) /\ IsWord(t[i + 1])
    IN  before # after

RECURSIVE Run(_, _, _)
\* How many characters of class C follow offset i.
Run(t, i, C) ==
    IF i < Len(t) /\ t[i + 1] \in C THEN 1 + Run(t, i + 1, C) ELSE 0

CharAt(t, i) == IF 0 <= i /\ i < Len(t) THEN t[i + 1] ELSE ""

\* [0-9]{1,3}\. tried at i: the offset after the dot, or -1.  The digits are
\* followed by a dot, so the group takes the whole run of digits.
OctetDot(t, i) ==
    LET r == Run(t, i, Digit)
    IN  IF i >= 0 /\ r >= 1 /\ r <= 3 /\ CharAt(t, i + r) = "." THEN i + r + 1 ELSE -1

\* ipv4_pattern: \b(?:[0-9]{1,3}\.){3}[0-9]{1,3}\b
Ipv4End(t, i) ==
    LET a == OctetDot(t, i)
        b == OctetDot(t, a)
        c == OctetDot(t, b)
        r == IF c >= 0 THEN Run(t, c, Digit) ELSE 0
    IN  IF Boundary(t, i) /\ c >= 0 /\ r >= 1 /\ r <= 3 /\ Boundary(t, c + r)
        THEN c + r ELSE -1

\* Whether the characters from i have the shape sh: "d" a digit, else itself.
Shaped(t, i, sh) ==
    /\ i + Len(sh) <= Len(t)
    /\ \A k \in 1..Len(sh) :
          IF sh[k] = "d" THEN t[i + k] \in Digit ELSE t[i + k] = sh[k]

DateShapes ==
    << <<"d","d","d","d","-","d","d","-","d","d">>,
       <<"d","d",".","d","d",".","d","d","d","d">>,
       <<"d","d","/","d","d","/","d","d","d","d">> >>

\* date_pattern: \b(?:\d{4}-\d{2}-\d{2}|\d{2}\.\d{2}\.\d{4}|\d{2}/\d{2}/\d{4})\b
DateEnd(t, i) ==
    IF /\ Boundary(t, i)
       /\ \E s \in 1..Len(DateShapes) : Shaped(t, i, DateShapes[s])
       /\ Boundary(t, i + 10)
    THEN i + 10 ELSE -1

LocalClass == Upper \cup Lower \cup Digit \cup {".", "_", "%", "+", "-"}
DomainClass == Upper \cup Lower \cup Digit \cup {".", "-"}
TldClass == Upper \cup Lower \cup {"|"}

\* [A-Z|a-z]{2,}\b tried at i, greedy: the longest run that ends at a \b.
TldEnd(t, i) ==
    LET r == Run(t, i, TldClass)
        ok == {j \in 2..r : Boundary(t, i + j)}
    IN  IF ok = {} THEN -1 ELSE i + (CHOOSE j \in ok : \A k \in ok : k <= j)

\* email_pattern: \b[A-Za-z0-9._%+-]+@[A-Za-z0-9.-]+\.[A-Z|a-z]{2,}\b
\* The domain is greedy and gives characters back until a dot and a
\* top-level label follow it.
EmailEnd(t, i) ==
    LET l == Run(t, i, LocalClass)
        d0 == i + l + 1
        d == Run(t, d0, DomainClass)
        ok == {k \in 1..d : CharAt(t, d0 + k) = "." /\ TldEnd(t, d0 + k + 1) >= 0}
    IN  IF Boundary(t, i) /\ l >= 1 /\ CharAt(t, i + l) = "@" /\ ok # {}
        THEN TldEnd(t, d0 + (CHOOSE k \in ok : \A m \in ok : m <= k) + 1)
        ELSE -1

\* r'\b' + re.escape(word) + r'\b' with re.IGNORECASE
WordEnd(t, i, word) ==
    IF /\ i + Len(word) <= Len(t)
       /\ Boundary(t, i)
       /\ \A k \in 1..Len(word) : FoldCase(t[i + k]) = FoldCase(word[k])
       /\ Boundary(t, i + Len(word))
    THEN i + Len(word) ELSE -1

\* \b[A-Z][a-z]+\b
CapsEnd(t, i) ==
    LET r == Run(t, i + 1, Lower)
    IN  IF /\ Boundary(t, i)
           /\ CharAt(t, i) \in Upper
           /\ r >= 1
           /\ Boundary(t, i + 1 + r)
        THEN i + 1 + r ELSE -1

Span(t, s, e) == [start |-> s, end |-> e, text |-> Slice(t, s, e)]

RECURSIVE FindIter(_, _, _)
\* re.finditer: the leftmost match from offset i on, then on from its end.
\* ends[j + 1] is the end of the match at offset j, or -1.
FindIter(t, ends, i) ==
    LET starts == {j \in i..Len(t) : ends[j + 1] > j}
        s == CHOOSE j \in starts : \A k \in starts : j <= k
    IN  IF starts = {} THEN <<>>
        ELSE <<Span(t, s, ends[s + 1])>> \o FindIter(t, ends, ends[s + 1])

Ipv4Matches(t) == FindIter(t, [j \in 1..Len(t) + 1 |-> Ipv4End(t, j - 1)], 0)
DateMatches(t) == FindIter(t, [j \in 1..Len(t) + 1 |-> DateEnd(t, j - 1)], 0)
EmailMatches(t) == FindIter(t, [j \in 1..Len(t) + 1 |-> EmailEnd(t, j - 1)], 0)
CapsMatches(t) == FindIter(t, [j \in 1..Len(t) + 1 |-> CapsEnd(t, j - 1)], 0)
WordMatches(t, word) ==
    FindIter(t, [j \in 1..Len(t) + 1 |-> WordEnd(t, j - 1, word)], 0)

RECURSIVE CustomMatches(_, _)
\* Phase 2: every non-empty word of the list, in list order.
CustomMatches(t, words) ==
    IF words = <<>> THEN <<>>
    ELSE (IF Head(words) = <<>> THEN <<>> ELSE WordMatches(t, Head(words)))
         \o CustomMatches(t, Tail(words))

\* Phases 1 to 3: the candidates in discovery order.
Candidates(t, words, caps) ==
    Ipv4Matches(t) \o DateMatches(t) \o EmailMatches(t)
    \o CustomMatches(t, words)
    \o (IF caps THEN CapsMatches(t) ELSE <<>>)

(***************************************************************************)
(* Conflict resolution (_find_matches, after the three phases).            *)
(***************************************************************************)
RECURSIVE InsertByStart(_, _)
\* sorted, with m put after every element whose start is <= m's: list.sort
\* is stable, so candidates of equal start keep their discovery order.
InsertByStart(sorted, m) ==
    IF sorted = <<>> THEN <<m>>
    ELSE IF Head(sorted).start <= m.start
         THEN <<Head(sorted)>> \o InsertByStart(Tail(sorted), m)
         ELSE <<m>> \o sorted

RECURSIVE InsertByStartEnd(_, _)
\* A sort that orders candidates of equal start by their end.
InsertByStartEnd(sorted, m) ==
    IF sorted = <<>> THEN <<m>>
    ELSE IF \/ Head(sorted).start < m.start
            \/ Head(sorted).start = m.start /\ Head(sorted).end <= m.end
         THEN <<Head(sorted)>> \o InsertByStartEnd(Tail(sorted), m)
         ELSE <<m>> \o sorted

RECURSIVE SortByStartEnd(_)
SortByStartEnd(ms) ==
    IF ms = <<>> THEN <<>>
    ELSE InsertByStartEnd(SortByStartEnd(SubSeq(ms, 1, Len(ms) - 1)), ms[Len(ms)])

RECURSIVE SortByStart(_)
\* matches.sort(key=lambda x: x[0])
SortByStart(ms) ==
    IF ms = <<>> THEN <<>>
    ELSE InsertByStart(SortByStart(SubSeq(ms, 1, Len(ms) - 1)), ms[Len(ms)])

\* A test that compares the candidate's start with the kept span's start.
OverlapsByStart(m, last) == m.start < last.start

\* if m_start < last_end: overlap, the candidate is dropped
Overlaps(m, last) == m.start < last.end

RECURSIVE ResolveLoop(_, _, _)
\* for i in range(1, len(matches)): i is the 1-based index of the next one
ResolveLoop(sorted, i, cleaned) ==
    IF i > Len(sorted) THEN cleaned
    ELSE IF Overlaps(sorted[i], cleaned[Len(cleaned)])
         THEN ResolveLoop(sorted, i + 1, cleaned)
         ELSE ResolveLoop(sorted, i + 1, Append(cleaned, sorted[i]))

\* The sort, the empty case, the first candidate kept, the loop.
Resolve(ms) ==
    LET sorted == SortByStart(ms)
    IN  IF sorted = <<>> THEN <<>> ELSE ResolveLoop(sorted, 2, <<sorted[1]>>)

FindMatches(t, words, caps) == Resolve(Candidates(t, words, caps))

(***************************************************************************)
(* redact                                                                  *)
(***************************************************************************)
Styles == {"CLASSIC", "BLACKOUT", "VECTURE_NOISE"}

ClassicToken == <<"[","R","E","D","A","C","T","E","D","]">>

NoiseChars == <<"X","J","9","#","k","L","@","!","%","&","?">>

\* random.choice(chars): the n-th draw of a random source in state seed.
RandomChoice(seed, n) == NoiseChars[((seed + n) % Len(NoiseChars)) + 1]

\* A block fill of one fixed length.
ReplacementFixedBlock(st, original, seed, drawn) ==
    IF st = "BLACKOUT" THEN Repeat(BlockChar, Len(ClassicToken))
    ELSE IF st = "VECTURE_NOISE"
         THEN [k \in 1..Len(ClassicToken) |-> RandomChoice(seed, drawn + k - 1)]
         ELSE ClassicToken

\* The substitute token of one match; drawn characters were drawn before it.
Replacement(st, original, seed, drawn) ==
    IF st = "BLACKOUT" THEN Repeat(BlockChar, Len(original))
    ELSE IF st = "VECTURE_NOISE"
         THEN [k \in 1..Len(original) |-> RandomChoice(seed, drawn + k - 1)]
         ELSE ClassicToken

\* A position in the coordinates of the input text.
PositionInInput(pieces, m) == m.start

\* current_len = sum(len(s) for s in result_text), taken after the text
\* before the match was appended and before the token is.
Position(pieces, m) == SumLen(pieces)

RECURSIVE RedactLoop(_, _, _, _, _, _, _, _, _)
\* for start, end, original in matches, with the tail appended at the end
RedactLoop(t, ms, st, seed, i, pieces, recs, current_idx, drawn) ==
    IF i > Len(ms)
    THEN [result_text |-> Append(pieces, SliceFrom(t, current_idx)),
          restorations |-> recs]
    ELSE LET m == ms[i]
             kept == Append(pieces, Slice(t, current_idx, m.start))
             replacement == Replacement(st, m.text, seed, drawn)
             rec == [pos |-> Position(kept, m), text |-> m.text,
                     len |-> Len(replacement)]
         IN  RedactLoop(t, ms, st, seed, i + 1, Append(kept, replacement),
                        Append(recs, rec), m.end,
                        IF st = "VECTURE_NOISE" THEN drawn + Len(m.text) ELSE drawn)

HashBase == 257
HashMod == 46337

RECURSIVE PowBase(_)
\* HashBase ^ k modulo HashMod
PowBase(k) ==
    IF k = 0 THEN 1
    ELSE LET h == PowBase(k \div 2)
             sq == (h * h) % HashMod
         IN  IF k % 2 = 1 THEN (sq * HashBase) % HashMod ELSE sq

RECURSIVE DigestBytes(_, _)
DigestBytes(bytes, h) ==
    IF bytes = <<>> THEN h
    ELSE DigestBytes(Tail(bytes), (h * HashBase + Head(bytes) + 1) % HashMod)

RECURSIVE DigestRange(_, _, _)
\* The digest of the bytes of t[lo..hi] and their number: the digest of a
\* byte string b1..bn is the sum of (bi + 1) * HashBase^(n - i), computed
\* by halves.
DigestRange(t, lo, hi) ==
    IF lo > hi THEN [h |-> 0, n |-> 0]
    ELSE IF lo = hi
         THEN [h |-> DigestBytes(Utf8(t[lo]), 0), n |-> Len(Utf8(t[lo]))]
         ELSE LET mid == (lo + hi) \div 2
                  a == DigestRange(t, lo, mid)
                  b == DigestRange(t, mid + 1, hi)
              IN  [h |-> (a.h * PowBase(b.n) + b.h) % HashMod, n |-> a.n + b.n]

\* hashlib.sha256(t.encode('utf-8')).hexdigest(): a digest of the UTF-8
\* bytes of t, here a polynomial one of 16 bits
Digest(t) == DigestRange(t, 1, Len(t)).h

\* redact(text, style, custom_words, redact_caps), after its call of
\* _find_matches returned ms and with the random source in state seed: the
\* pieces, the redacted text and the key.
RedactCall(t, st, ms, seed) ==
    LET r == RedactLoop(t, ms, st, seed, 1, <<>>, <<>>, 0, 0)
        final == Join(r.result_text)
    IN  [result_text |-> r.result_text,
         redacted_text |-> final,
         key_data |-> [version |-> "1.0", hash |-> Digest(final),
                       restorations |-> r.restorations]]

(***************************************************************************)
(* restore                                                                 *)
(***************************************************************************)
\* A check that lets every text pass.
IntegritySkipped(rt, key) == TRUE

\* current_hash != key_data.get("hash") is false
IntegrityOk(rt, key) == Digest(rt) = key.hash

RECURSIVE InsertByPosDesc(_, _)
\* sorted, with r put after every element whose pos is >= r's: the sort is
\* stable also with reverse=True.
InsertByPosDesc(sorted, r) ==
    IF sorted = <<>> THEN <<r>>
    ELSE IF Head(sorted).pos >= r.pos
         THEN <<Head(sorted)>> \o InsertByPosDesc(Tail(sorted), r)
         ELSE <<r>> \o sorted

RECURSIVE SortByPosAsc(_)
\* The records sorted by position ascending.
SortByPosAsc(recs) ==
    IF recs = <<>> THEN <<>>
    ELSE LET rest == SortByPosAsc(Tail(recs))
             r == Head(recs)
             small == {k \in 1..Len(rest) : rest[k].pos < r.pos}
         IN  SubSeq(rest, 1, Cardinality(small)) \o <<r>>
             \o SubSeq(rest, Cardinality(small) + 1, Len(rest))

\* The records left in their stored order.
Unsorted(recs) == recs

RECURSIVE SortByPosDesc(_)
\* restorations.sort(key=lambda x: x["pos"], reverse=True)
SortByPosDesc(recs) ==
    IF recs = <<>> THEN <<>>
    ELSE InsertByPosDesc(SortByPosDesc(SubSeq(recs, 1, Len(recs) - 1)), recs[Len(recs)])

\* The order restore processes the records in.
ProcessingOrder(recs) == SortByPosDesc(recs)

\* if pos < 0 or pos + replacement_len > len(result)
OutOfBounds(item, result) == item.pos < 0 \/ item.pos + item.len > Len(result)

\* before + original + after
Reintegrate(item, result) ==
    SliceTo(result, item.pos) \o item.text \o SliceFrom(result, item.pos + item.len)

RECURSIVE RestoreLoop(_, _, _)
\* for item in restorations; i is the 1-based index of the next record
RestoreLoop(recs, i, result) ==
    IF i > Len(recs)
    THEN [kind |-> "returned", returned |-> <<result>>, index |-> 0, applied |-> i - 1]
    ELSE IF OutOfBounds(recs[i], result)
         THEN [kind |-> "CorruptKey", returned |-> <<>>, index |-> recs[i].pos,
               applied |-> i - 1]
         ELSE RestoreLoop(recs, i + 1, Reintegrate(recs[i], result))

\* restore(redacted_text, key_data): what the call returns or raises, the
\* number of records it applied first, and the key's list as the call
\* leaves it (the list is sorted in place).
RestoreCall(rt, key) ==
    IF ~IntegrityOk(rt, key)
    THEN [kind |-> "IntegrityViolation", returned |-> <<>>, index |-> 0,
          applied |-> 0, restorations |-> key.restorations]
    ELSE LET sorted == ProcessingOrder(key.restorations)
             r == RestoreLoop(sorted, 1, rt)
         IN  [kind |-> r.kind, returned |-> r.returned, index |-> r.index,
              applied |-> r.applied, restorations |-> sorted]

NoOutcome == [kind |-> "none", returned |-> <<>>, index |-> 0, applied |-> 0]
NoKey == [version |-> "1.0", hash |-> 0, restorations |-> <<>>]
NoCli == [pc |-> "idle"]

(***************************************************************************)
(* Inputs of the engine.                                                   *)
(***************************************************************************)
\* Fragments an input text is made of: an address, the tail of an e-mail
\* address, a date, an e-mail address, a capitalised word, a plain word.
Tokens ==
    { <<"1",".","2",".","3",".","4">>,
      <<"@","b",".","c","d"," ">>,
      <<"2","0","2","3","-","0","1","-","0","5"," ">>,
      <<"j","@","x",".","i","o"," ">>,
      <<"A","c","m","e"," ">>,
      <<"a","c","m","e">> }

Texts == {Join(ts) : ts \in UNION {[1..n -> Tokens] : n \in 0..MaxTokens}}

WordLists ==
    { <<>>,
      << <<>>, <<"a","c","m","e">> >>,
      << <<"x",".","i","o">>, <<"c","d">> >> }

Seeds == 0..(NoiseSeeds - 1)

Init ==
    /\ text \in Texts
    /\ style \in Styles
    /\ custom_words \in WordLists
    /\ redact_caps \in BOOLEAN
    /\ result_text = <<>>
    /\ redacted_text = <<>>
    /\ key_data = NoKey
    /\ outcome = NoOutcome
    /\ phase = "input"
    /\ matches = <<>>
    /\ cleaned_matches = <<>>
    /\ cli = NoCli

\* The caller calls redact on the input and keeps the text and the key.
Redact ==
    /\ phase = "input"
    /\ LET found == Candidates(text, custom_words, redact_caps)
           ms == Resolve(found)
       IN  /\ matches' = found
           /\ cleaned_matches' = ms
           /\ \E seed \in (IF style = "VECTURE_NOISE" THEN Seeds ELSE {0}) :
                 LET r == RedactCall(text, style, ms, seed)
                 IN  /\ result_text' = r.result_text
                     /\ redacted_text' = r.redacted_text
                     /\ key_data' = r.key_data
    /\ phase' = "redacted"
    /\ UNCHANGED <<text, style, custom_words, redact_caps, outcome, cli>>

\* The caller calls restore on the text and the key it holds.
Restore ==
    /\ phase \in {"redacted", "restored"}
    /\ LET r == RestoreCall(redacted_text, key_data)
       IN  /\ outcome' = [kind |-> r.kind, returned |-> r.returned,
                          index |-> r.index, applied |-> r.applied]
           /\ key_data' = [key_data EXCEPT !.restorations = r.restorations]
    /\ phase' = "restored"
    /\ UNCHANGED <<text, style, custom_words, redact_caps, result_text,
                   redacted_text, matches, cleaned_matches, cli>>

Next == Redact \/ Restore

Spec == Init /\ [][Next]_vars

(***************************************************************************)
(* restore on a redacted text and a key that reached the caller from        *)
(* outside: the key may have been edited, the text may be changed.          *)
(***************************************************************************)
RChars == {"a", "b"}
TamperChar == "#"
RTexts == UNION {[1..n -> RChars] : n \in 0..MaxRLen}
RecLens == {-1, 0, 1}
KeyRecords == [pos : -1..MaxPos, text : {<<"x", "y">>}, len : RecLens]
RecLists == UNION {[1..n -> KeyRecords] : n \in 0..MaxRecs}

InitRestore ==
    /\ redacted_text \in RTexts
    /\ \E recs \in RecLists :
          key_data = [version |-> "1.0", hash |-> Digest(redacted_text),
                      restorations |-> recs]
    /\ text = <<>>
    /\ style = "CLASSIC"
    /\ custom_words = <<>>
    /\ redact_caps = FALSE
    /\ result_text = <<>>
    /\ outcome = NoOutcome
    /\ phase = "redacted"
    /\ matches = <<>>
    /\ cleaned_matches = <<>>
    /\ cli = NoCli

\* One character of the redacted text is changed before restore is called.
Tamper ==
    /\ phase = "redacted"
    /\ Digest(redacted_text) = key_data.hash
    /\ \E i \in 1..Len(redacted_text) :
          redacted_text' = [redacted_text EXCEPT ![i] = TamperChar]
    /\ UNCHANGED <<text, style, custom_words, redact_caps, result_text, key_data,
                   outcome, phase, matches, cleaned_matches, cli>>

NextRestore == Tamper \/ Restore

SpecRestore == InitRestore /\ [][NextRestore]_vars

(***************************************************************************)
(* The conflict resolver on any candidate list.                            *)
(***************************************************************************)
ResolverText == <<"0","1","2","3","4","5","6","7","8","9">>

\* Every span with an end up to SpanMax, and the spans [0,5) and [3,10).
CandidateSpans ==
    {Span(ResolverText, q[1], q[2]) :
        q \in {p \in (0..SpanMax) \X (1..SpanMax) : p[1] < p[2]}}
    \cup {Span(ResolverText, 0, 5), Span(ResolverText, 3, 10)}

InitResolve ==
    /\ matches = <<>>
    /\ cleaned_matches = <<>>
    /\ phase = "candidates"
    /\ text = ResolverText
    /\ style = "CLASSIC"
    /\ custom_words = <<>>
    /\ redact_caps = FALSE
    /\ result_text = <<>>
    /\ redacted_text = <<>>
    /\ key_data = NoKey
    /\ outcome = NoOutcome
    /\ cli = NoCli

\* A recognizer appends one more candidate.
AddCandidate ==
    /\ phase = "candidates"
    /\ Len(matches) < MaxCands
    /\ \E sp \in CandidateSpans : matches' = Append(matches, sp)
    /\ UNCHANGED <<text, style, custom_words, redact_caps, result_text,
                   redacted_text, key_data, outcome, phase, cleaned_matches, cli>>

\* The conflict resolution runs on the candidates found.
ResolveCandidates ==
    /\ phase = "candidates"
    /\ cleaned_matches' = Resolve(matches)
    /\ phase' = "resolved"
    /\ UNCHANGED <<text, style, custom_words, redact_caps, result_text,
                   redacted_text, key_data, outcome, matches, cli>>

NextResolve == AddCandidate \/ ResolveCandidates

SpecResolve == InitResolve /\ [][NextResolve]_vars

(***************************************************************************)
(* The redact command of main.py.  cli.out_file and cli.key_file are what   *)
(* the disk holds at out_path and key_path ("absent", "stale": a file from  *)
(* before the run, "partial": a write that failed midway, "written").       *)
(* The two paths are in one directory (key_path is out_path with a suffix   *)
(* added), cli.dir_writable tells whether that directory lets entries be    *)
(* created and removed.  A write can also fail for a reason of its own.     *)
(***************************************************************************)
InitCli ==
    /\ \E w \in BOOLEAN, o \in BOOLEAN, c \in BOOLEAN, d \in BOOLEAN,
          f \in {"absent", "stale"}, k \in {"absent", "stale"} :
          cli = [pc |-> "read_words", words |-> w, obfuscate_key |-> o,
                 capitals |-> c, dir_writable |-> d, out_file |-> f, key_file |-> k,
                 wrote_out |-> FALSE, key_failed |-> FALSE, exit_code |-> -1]
    /\ text \in {<<>>, <<"A","c","m","e"," ">>}
    /\ style = "CLASSIC"
    /\ custom_words = <<>>
    /\ redact_caps = FALSE
    /\ result_text = <<>>
    /\ redacted_text = <<>>
    /\ key_data = NoKey
    /\ outcome = NoOutcome
    /\ phase = "cli"
    /\ matches = <<>>
    /\ cleaned_matches = <<>>

CliFrame ==
    UNCHANGED <<text, style, custom_words, outcome, phase>>

CoreFrame ==
    UNCHANGED <<redact_caps, result_text, redacted_text, key_data, matches,
                cleaned_matches>>

\* raise typer.Exit(code=1)
Exit1(c) == [c EXCEPT !.pc = "exited", !.exit_code = 1]

\* Whether a write to a path holding f can open its file.
CanOpen(c, f) == f # "absent" \/ c.dir_writable

\* Lines 42-51: the words file, when one is given.
CliReadWords ==
    /\ cli.pc = "read_words"
    /\ \/ cli' = [cli EXCEPT !.pc = "read_source"]
       \/ cli.words /\ cli' = Exit1(cli)
    /\ CliFrame /\ CoreFrame

\* Lines 53-58: the source file.
CliReadSource ==
    /\ cli.pc = "read_source"
    /\ \/ cli' = [cli EXCEPT !.pc = "redact"]
       \/ cli' = Exit1(cli)
    /\ CliFrame /\ CoreFrame

\* Lines 60-83: the engine's redact, and the two paths.
CliRedact ==
    /\ cli.pc = "redact"
    /\ LET found == Candidates(text, <<>>, cli.capitals)
           ms == Resolve(found)
           r == RedactCall(text, style, ms, 0)
       IN  /\ matches' = found
           /\ cleaned_matches' = ms
           /\ result_text' = r.result_text
           /\ redacted_text' = r.redacted_text
           /\ key_data' = r.key_data
    /\ redact_caps' = cli.capitals
    /\ cli' = [cli EXCEPT !.pc = "write_out"]
    /\ CliFrame

\* Lines 85-91: out_path.write_text(redacted_text)
CliWriteOut ==
    /\ cli.pc = "write_out"
    /\ \/ /\ CanOpen(cli, cli.out_file)
          /\ cli' = [cli EXCEPT !.pc = "make_key", !.out_file = "written",
                                !.wrote_out = TRUE]
       \/ /\ CanOpen(cli, cli.out_file)
          /\ cli' = [Exit1(cli) EXCEPT !.out_file = "partial"]
       \/ /\ ~CanOpen(cli, cli.out_file)
          /\ cli' = Exit1(cli)
    /\ CliFrame /\ CoreFrame

\* Lines 94-98: obfuscate_key(key_data) or json.dumps(key_data); an
\* exception goes to the handler of line 104.
CliMakeKey ==
    /\ cli.pc = "make_key"
    /\ \/ cli' = [cli EXCEPT !.pc = "write_key"]
       \/ cli' = [cli EXCEPT !.pc = "cleanup", !.key_failed = TRUE]
    /\ CliFrame /\ CoreFrame

\* Line 100: key_path.write_text(key_content)
CliWriteKey ==
    /\ cli.pc = "write_key"
    /\ \/ /\ CanOpen(cli, cli.key_file)
          /\ cli' = [cli EXCEPT !.pc = "exited", !.key_file = "written",
                                !.exit_code = 0]
       \/ /\ CanOpen(cli, cli.key_file)
          /\ cli' = [cli EXCEPT !.pc = "cleanup", !.key_file = "partial",
                                !.key_failed = TRUE]
       \/ /\ ~CanOpen(cli, cli.key_file)
          /\ cli' = [cli EXCEPT !.pc = "cleanup", !.key_failed = TRUE]
    /\ CliFrame /\ CoreFrame

\* Lines 104-108: out_path.unlink(missing_ok=True), then Exit(code=1).  An
\* unlink the directory refuses raises out of the handler: the command ends
\* with the traceback and status 1, the file still there.
CliCleanup ==
    /\ cli.pc = "cleanup"
    /\ \/ /\ cli.dir_writable
          /\ cli' = [Exit1(cli) EXCEPT !.out_file = "absent"]
       \/ /\ ~cli.dir_writable
          /\ cli' = [cli EXCEPT !.pc = "crashed", !.exit_code = 1]
    /\ CliFrame /\ CoreFrame

NextCli ==
    \/ CliReadWords
    \/ CliReadSource
    \/ CliRedact
    \/ CliWriteOut
    \/ CliMakeKey
    \/ CliWriteKey
    \/ CliCleanup

SpecCli == InitCli /\ [][NextCli]_vars

(***************************************************************************)
(* Properties.                                                             *)
(***************************************************************************)
Recs == key_data.restorations

\* The lists that hold the records of recs in another order.
Reorderings(recs) ==
    {[i \in 1..Len(recs) |-> recs[f[i]]] :
        f \in {g \in [1..Len(recs) -> 1..Len(recs)] :
                 \A i, j \in 1..Len(recs) : i # j => g[i] # g[j]}}

\* What restore returns or raises for the held text and the key with its
\* records stored as recs.
OutcomeOf(recs) ==
    LET r == RestoreCall(redacted_text, [key_data EXCEPT !.restorations = recs])
    IN  [kind |-> r.kind, returned |-> r.returned, index |-> r.index]

HeldOutcome ==
    [kind |-> outcome.kind, returned |-> outcome.returned, index |-> outcome.index]

\* C1: restore of the text and the key that redact produced returns exactly
\* the text that was redacted, for every input text, style, word list and
\* heuristic flag.
C1_RoundTrip ==
    phase = "restored" =>
        outcome.kind = "returned" /\ outcome.returned = <<text>>

\* A round trip of a CLASSIC redaction with two matches, which moves the
\* text after the first token.
C1_Witness ==
    /\ phase = "restored"
    /\ style = "CLASSIC"
    /\ Len(Recs) >= 2
    /\ redacted_text # text
    /\ outcome.returned = <<text>>

\* C2: when the hash of the redacted text differs from the key's anchor,
\* restore raises the integrity error, has applied no record and returns no
\* text.
C2_IntegrityRejection ==
    (phase = "restored" /\ Digest(redacted_text) # key_data.hash) =>
        /\ outcome.kind = "IntegrityViolation"
        /\ outcome.returned = <<>>
        /\ outcome.applied = 0

\* restore was called after one character of the text was changed, with a
\* key that holds records.
C2_Witness ==
    /\ phase = "restored"
    /\ Digest(redacted_text) # key_data.hash
    /\ \E i \in 1..Len(redacted_text) : redacted_text[i] = TamperChar
    /\ Len(Recs) >= 1
    /\ outcome.kind = "IntegrityViolation"

\* C3: with a matching anchor, a record whose position is beyond the end of
\* the redacted text makes restore raise the corrupt-key error and return no
\* text, whatever the record's replacement_length and the other records.
C3_CorruptKeyRejection ==
    (/\ phase = "restored"
     /\ Digest(redacted_text) = key_data.hash
     /\ \E i \in 1..Len(Recs) : Recs[i].pos > Len(redacted_text)) =>
        outcome.kind = "CorruptKey" /\ outcome.returned = <<>>

\* C4: the resolver's output is strictly ascending by start and pairwise
\* non-overlapping, for any candidate list.
C4_NonOverlap ==
    phase = "resolved" =>
        \A i, j \in 1..Len(cleaned_matches) :
            i < j => /\ cleaned_matches[i].start < cleaned_matches[j].start
                     /\ cleaned_matches[i].end <= cleaned_matches[j].start

\* Three candidates, two of them identical, resolved to two adjacent spans.
C4_Witness ==
    /\ phase = "resolved"
    /\ Len(matches) = 3
    /\ \E i, j \in 1..3 : i # j /\ matches[i] = matches[j]
    /\ Len(cleaned_matches) = 2
    /\ cleaned_matches[1].end = cleaned_matches[2].start

\* Candidate i comes before candidate j in the stable sort by start.
SortsBefore(i, j) ==
    \/ matches[i].start < matches[j].start
    \/ matches[i].start = matches[j].start /\ i < j

\* K is the set of kept candidates: a candidate is kept exactly when no kept
\* candidate before it ends after its start.
IsKeptSet(K) ==
    \A i \in 1..Len(matches) :
        i \in K <=> \A j \in K : SortsBefore(j, i) => matches[j].end <= matches[i].start

\* C5: first-wins.  The candidates are taken in the order of a stable sort
\* by start, the first is kept, a later one is kept exactly when its start
\* is not less than the end of the last kept one, and what is kept is kept
\* whole; [0,5) then [3,10) resolves to [0,5) alone.
C5_FirstWins ==
    phase = "resolved" =>
        /\ \E K \in SUBSET (1..Len(matches)) :
              /\ IsKeptSet(K)
              /\ Len(cleaned_matches) = Cardinality(K)
              /\ \A i \in K :
                    cleaned_matches[1 + Cardinality({j \in K : SortsBefore(j, i)})]
                        = matches[i]
        /\ matches = <<Span(ResolverText, 0, 5), Span(ResolverText, 3, 10)>>
              => cleaned_matches = <<Span(ResolverText, 0, 5)>>

\* [0,5) then [3,10), and a resolution that kept a candidate starting
\* exactly at the end of the one kept before it while dropping another.
C5_Witness ==
    /\ phase = "resolved"
    /\ \/ /\ matches = <<Span(ResolverText, 0, 5), Span(ResolverText, 3, 10)>>
          /\ cleaned_matches = <<Span(ResolverText, 0, 5)>>
       \/ /\ matches = <<Span(ResolverText, 0, 2), Span(ResolverText, 0, 1),
                         Span(ResolverText, 2, 3)>>
          /\ cleaned_matches = <<Span(ResolverText, 0, 2), Span(ResolverText, 2, 3)>>

\* C6 as stated: with a matching anchor, restore's outcome is the same for
\* every stored order of the key's records.
C6_AnyStoredOrder ==
    (phase = "restored" /\ Digest(redacted_text) = key_data.hash) =>
        \A recs \in Reorderings(Recs) : OutcomeOf(recs) = HeldOutcome

DistinctPositions(recs) ==
    \A i, j \in 1..Len(recs) : i # j => recs[i].pos # recs[j].pos

\* C6 amended: with a matching anchor and records of pairwise distinct
\* positions, restore's outcome is the same for every stored order of the
\* key's records.
C6_DistinctPositions ==
    (/\ phase = "restored"
     /\ Digest(redacted_text) = key_data.hash
     /\ DistinctPositions(Recs)) =>
        \A recs \in Reorderings(Recs) : OutcomeOf(recs) = HeldOutcome

\* restore returned a text for a key of two records at distinct positions.
C6_Witness ==
    /\ phase = "restored"
    /\ Digest(redacted_text) = key_data.hash
    /\ Len(Recs) = 2
    /\ Recs[1].pos # Recs[2].pos
    /\ outcome.kind = "returned"
    /\ outcome.returned # <<redacted_text>>

\* C7: a call of restore leaves the caller's key and the caller's redacted
\* text as they were.
C7_RestorePure ==
    [][phase' = "restored" =>
          key_data' = key_data /\ redacted_text' = redacted_text]_vars

\* C8: a BLACKOUT or VECTURE_NOISE token is as long as the original it
\* replaces, so the redacted text is as long as the input; a CLASSIC token
\* is [REDACTED]; the recorded replacement_length is the length of the token
\* written.
C8_StyleLengths ==
    phase = "redacted" =>
        /\ Len(result_text) = 2 * Len(cleaned_matches) + 1
        /\ Len(Recs) = Len(cleaned_matches)
        /\ \A i \in 1..Len(cleaned_matches) :
              LET token == result_text[2 * i]
                  original == Slice(text, cleaned_matches[i].start, cleaned_matches[i].end)
              IN  /\ Recs[i].len = Len(token)
                  /\ Recs[i].text = original
                  /\ style = "BLACKOUT" =>
                        token = Repeat(BlockChar, Len(original))
                  /\ style = "VECTURE_NOISE" =>
                        /\ Len(token) = Len(original)
                        /\ \A k \in 1..Len(token) :
                              \E n \in 1..Len(NoiseChars) : token[k] = NoiseChars[n]
                  /\ style = "CLASSIC" => token = ClassicToken
        /\ style \in {"BLACKOUT", "VECTURE_NOISE"} => Len(redacted_text) = Len(text)
        /\ style = "CLASSIC" =>
              Len(redacted_text) =
                  Len(text) + Len(ClassicToken) * Len(cleaned_matches)
                  - SumLen([i \in 1..Len(Recs) |-> Recs[i].text])

\* A BLACKOUT redaction of two matches of different lengths.
C8_Witness ==
    /\ phase = "redacted"
    /\ style = "BLACKOUT"
    /\ Len(cleaned_matches) = 2
    /\ Len(cleaned_matches[1].text) # Len(cleaned_matches[2].text)
    /\ Len(cleaned_matches[1].text) # Len(ClassicToken)

\* C10: each record's position is the length of the output built before its
\* token, the slice [position, position + replacement_length) of the
\* redacted text is that token, the positions are strictly ascending, the
\* slices do not overlap and none passes the end of the redacted text.
C10_Positions ==
    phase = "redacted" =>
        /\ Len(result_text) = 2 * Len(Recs) + 1
        /\ redacted_text = Join(result_text)
        /\ \A i \in 1..Len(Recs) :
              /\ Recs[i].pos = SumLen(SubSeq(result_text, 1, 2 * i - 1))
              /\ Recs[i].pos >= 0
              /\ Recs[i].pos + Recs[i].len <= Len(redacted_text)
              /\ SubSeq(redacted_text, Recs[i].pos + 1, Recs[i].pos + Recs[i].len)
                    = result_text[2 * i]
              /\ i < Len(Recs) =>
                    /\ Recs[i].pos < Recs[i + 1].pos
                    /\ Recs[i].pos + Recs[i].len <= Recs[i + 1].pos

\* A CLASSIC redaction of two matches: the second position is not the
\* second match's offset in the input.
C10_Witness ==
    /\ phase = "redacted"
    /\ style = "CLASSIC"
    /\ Len(Recs) = 2
    /\ Recs[2].pos # cleaned_matches[2].start
    /\ Recs[1].pos > 0

\* C9: when the redacted file was written and the key generation or the key
\* write then failed, the command ends with status 1 and no redacted file
\* on disk.
C9_NoHalfPair ==
    (cli.pc \in {"exited", "crashed"} /\ cli.wrote_out /\ cli.key_failed) =>
        cli.out_file = "absent" /\ cli.exit_code = 1

=============================================================================
